---- MODULE Spec2Model ----
(***************************************************************************)
(* mmnn - a neuron graph with forward propagation and backpropagation.     *)
(*                                                                         *)
(* Numbers of the program are f64; the model uses integers and only the    *)
(* activation variants that map integers to integers (Identity, Linear,    *)
(* ReLU, Binary), on which f64 arithmetic is exact for the small values    *)
(* used here.                                                              *)
(*                                                                         *)
(* A neuron is an Rc<RefCell<Neuron>> allocation.  The model names every   *)
(* allocation by a handle: <<"I", i>> for the i-th neuron made by          *)
(* create_inputs, <<"O", j>> for the j-th neuron made by create_outputs,   *)
(* <<"N", k>> for the neuron made by create_neuron for the k-th id.        *)
(* A RefCell borrow that is alive is a handle in a set 'borrowed'.         *)
(***************************************************************************)
EXTENDS Integers, Sequences, FiniteSets, TLC

\* ------------------------------------------------------------------ bounds
\* most synapses a topology description declares
MaxSynapses == 4
\* most lines a session reads from stdin
MaxLines == 3
\* most entries of a line of numbers
MaxVec == 2

\* ------------------------------------------------------- program constants
\* std::u32::MAX, the "depth not calculated" sentinel.  TLC integers are
\* 32-bit signed, so the sentinel is the largest value TLC can hold; only
\* its being larger than every calculated depth matters.
U32_MAX == 2147483647

\* ----------------------------------------------------------------- helpers
IdSeq == <<"a", "b", "c">>

Ids == {IdSeq[i] : i \in 1..Len(IdSeq)}

IdIndex(id) == CHOOSE i \in 1..Len(IdSeq) : IdSeq[i] = id

Range(s) == {s[i] : i \in 1..Len(s)}

\* all sequences without repetition that enumerate the set S: the orders in
\* which a HashMap with key set S can be iterated
Orders(S) == {s \in [1..Cardinality(S) -> S] : Range(s) = S}

RECURSIVE SumSeq(_)
SumSeq(s) == IF s = <<>> THEN 0 ELSE s[1] + SumSeq(Tail(s))

Max(S) == CHOOSE x \in S : \A y \in S : y <= x

EmptyMap == [x \in {} |-> 0]

\* ------------------------------------------------------ ActivationFunction
\* str::to_lowercase on the activation names that occur in the model
ToLowercase(name) ==
    CASE name \in {"Identity", "identity"} -> "identity"
      [] name \in {"Binary", "BINARY", "binary"} -> "binary"
      [] name \in {"Linear", "linear"} -> "linear"
      [] name \in {"ReLU", "relu", "RELU"} -> "relu"
      [] OTHER -> name

NoActivation == "panic"

\* ActivationFunction::new: the variant, or NoActivation where new panics
ActivationNew(name) ==
    LET l == ToLowercase(name) IN
    CASE l = "identity" -> "Self::Identity"
      [] l = "binary" -> "Self::Binary"
      [] l = "linear" -> "Self::Linear"
      [] l = "relu" -> "Self::ReLU"
      [] OTHER -> NoActivation

Activation(variant, x) ==
    CASE variant = "Self::Identity" -> x
      [] variant = "Self::Binary" -> IF x > 0 THEN 1 ELSE 0
      [] variant = "Self::Linear" -> x
      [] variant = "Self::ReLU" -> IF x > 0 THEN x ELSE 0

Derivative(variant, x) ==
    CASE variant = "Self::Identity" -> 1
      [] variant = "Self::Binary" -> 0
      [] variant = "Self::Linear" -> 1
      [] variant = "Self::ReLU" -> IF x > 0 THEN 1 ELSE 0

GetName(variant) ==
    CASE variant = "Self::Identity" -> "Identity"
      [] variant = "Self::Binary" -> "Binary"
      [] variant = "Self::Linear" -> "Linear"
      [] variant = "Self::ReLU" -> "ReLU"

\* ------------------------------------------------------------------ Neuron
\* a synapse is [src |-> handle of the source neuron, weight |-> number]
NeuronNew(id, ntype, activation, bias) ==
    [id |-> id, ntype |-> ntype, synapses |-> <<>>, activation |-> activation,
     bias |-> bias, depth |-> U32_MAX, last_activation_value |-> 0,
     backup_activation_value |-> 0]

IsInput(n) == n.ntype = "Input"

SetActivationBias(n, activation, bias) ==
    [n EXCEPT !.activation = activation, !.bias = bias]

\* Neuron::connect: [ok, neuron]
Connect(n, src, weight) ==
    IF IsInput(n)
    THEN [ok |-> FALSE, neuron |-> n]
    ELSE [ok |-> TRUE,
          neuron |-> [n EXCEPT !.synapses = Append(@, [src |-> src, weight |-> weight])]]

\* Neuron::get_synapses_map: try_borrow is a shared borrow and the caller
\* holds a shared borrow of self, so it succeeds for every source
GetSynapsesMap(neurons, h, mutBorrowed) ==
    LET syn == neurons[h].synapses
        key(i) == IF syn[i].src \in mutBorrowed THEN neurons[h].id
                  ELSE neurons[syn[i].src].id
        \* HashMap::insert: a later entry with the same key replaces an earlier
        last(k) == Max({i \in 1..Len(syn) : key(i) = k})
    IN [k \in {key(i) : i \in 1..Len(syn)} |-> syn[last(k)].weight]

\* .max() of the depth candidates
DepthOfCandidates_Min(cands) == CHOOSE x \in cands : \A y \in cands : x <= y

DepthOfCandidates(cands) == Max(cands)

\* Neuron::calculate_depth on neuron h.  'borrowed' holds the neurons that
\* are mutably borrowed when the call starts (h among them): the caller's
\* borrow_mut and the try_borrow_mut guards of the enclosing calls.
\* Result: [ok, neurons].
RECURSIVE CalculateDepth(_, _, _)
RECURSIVE DepthCandidates(_, _, _, _, _)
CalculateDepth(neurons, h, borrowed) ==
    IF neurons[h].depth # U32_MAX THEN [ok |-> TRUE, neurons |-> neurons]
    ELSE IF neurons[h].synapses = <<>>
    THEN [ok |-> TRUE, neurons |-> [neurons EXCEPT ![h].depth = 0]]
    ELSE LET r == DepthCandidates(neurons, h, 1, borrowed, {}) IN
         IF r.cands # {}
         THEN [ok |-> TRUE, neurons |-> [r.neurons EXCEPT ![h].depth = DepthOfCandidates(r.cands)]]
         ELSE [ok |-> FALSE, neurons |-> r.neurons]

\* the map/filter_map over self.synapses from index i on: the Some values
\* collected so far are in cands
DepthCandidates(neurons, h, i, borrowed, cands) ==
    IF i > Len(neurons[h].synapses) THEN [cands |-> cands, neurons |-> neurons]
    ELSE LET s == neurons[h].synapses[i].src IN
         IF s \in borrowed
         THEN DepthCandidates(neurons, h, i + 1, borrowed, cands)
         ELSE IF neurons[s].depth # U32_MAX
         THEN DepthCandidates(neurons, h, i + 1, borrowed,
                              cands \cup {neurons[s].depth + 1})
         ELSE LET r == CalculateDepth(neurons, s, borrowed \cup {s}) IN
              IF r.ok
              THEN DepthCandidates(r.neurons, h, i + 1, borrowed,
                                   cands \cup {r.neurons[s].depth + 1})
              ELSE DepthCandidates(r.neurons, h, i + 1, borrowed, cands)

\* the closure of Neuron::propagate, without the weight: the activation
\* value read for the i-th synapse of h, h being mutably borrowed by the
\* caller, so that try_borrow_mut fails on a synapse from h itself
ReadValue(neurons, h, i) ==
    IF neurons[h].synapses[i].src = h
    THEN neurons[h].last_activation_value
    ELSE neurons[neurons[h].synapses[i].src].last_activation_value

\* what one call of Neuron::propagate on h reads, synapse by synapse
ForwardReads(neurons, h) ==
    [i \in 1..Len(neurons[h].synapses) |->
        [by |-> h, src |-> neurons[h].synapses[i].src, value |-> ReadValue(neurons, h, i)]]

\* Neuron::propagate on neuron h, mutably borrowed by the caller
NeuronPropagate_NoBias(neurons, h) ==
    LET n == neurons[h]
        term(i) == n.synapses[i].weight * ReadValue(neurons, h, i)
        sum_activations == SumSeq([i \in 1..Len(n.synapses) |-> term(i)])
    IN [neurons EXCEPT
          ![h].backup_activation_value = n.last_activation_value,
          ![h].last_activation_value = Activation(n.activation, sum_activations)]

NeuronPropagate(neurons, h) ==
    LET n == neurons[h]
        term(i) == n.synapses[i].weight * ReadValue(neurons, h, i)
        sum_activations == SumSeq([i \in 1..Len(n.synapses) |-> term(i)])
    IN [neurons EXCEPT
          ![h].backup_activation_value = n.last_activation_value,
          ![h].last_activation_value = Activation(n.activation, sum_activations + n.bias)]

\* ----------------------------------------------------------- NeuralNetwork
\* A topology description (ConfigJson) is
\*   [inputs: Seq(id), outputs: Seq(id),
\*    neurons: [some ids -> [activation: name, bias, synapses: [some ids -> weight]]]]
\* The error_function field is the one variant ErrorFunction::LossSquared.
EmptyNetwork ==
    [inputs |-> <<>>, outputs |-> <<>>, neuron_map |-> EmptyMap,
     neurons |-> EmptyMap, sorted_neurons |-> <<>>]

\* HashMap::insert on a map held as a function
MapInsert(m, k, v) == (k :> v) @@ m

RECURSIVE CreateInputs(_, _, _)
CreateInputs(nn, input_names, i) ==
    IF i > Len(input_names) THEN nn
    ELSE LET h == <<"I", i>>
             id == input_names[i]
         IN CreateInputs(
              [nn EXCEPT !.neurons = MapInsert(@, h, NeuronNew(id, "Input", "Self::Linear", 0)),
                         !.neuron_map = MapInsert(@, id, h),
                         !.inputs = Append(@, h)],
              input_names, i + 1)

RECURSIVE CreateOutputs(_, _, _)
CreateOutputs(nn, output_names, i) ==
    IF i > Len(output_names) THEN nn
    ELSE LET h == <<"O", i>>
             id == output_names[i]
         IN CreateOutputs(
              [nn EXCEPT !.neurons = MapInsert(@, h, NeuronNew(id, "Output", "Self::Linear", 0)),
                         !.neuron_map = MapInsert(@, id, h),
                         !.outputs = Append(@, h)],
              output_names, i + 1)

CreateNeuron(nn, id, activation, bias) ==
    IF id \in DOMAIN nn.neuron_map
    THEN [nn EXCEPT !.neurons[nn.neuron_map[id]] = SetActivationBias(@, activation, bias)]
    ELSE LET h == <<"N", IdIndex(id)>> IN
         [nn EXCEPT !.neurons = MapInsert(@, h, NeuronNew(id, "Normal", activation, bias)),
                    !.neuron_map = MapInsert(@, id, h)]

\* the first loop of new over cfg.neurons, iterated in the order keyOrd
RECURSIVE CreateNeurons(_, _, _, _)
CreateNeurons(nn, cfg, keyOrd, i) ==
    IF i > Len(keyOrd) THEN [status |-> "Ok", at |-> "", nn |-> nn]
    ELSE LET defs == cfg.neurons[keyOrd[i]]
             activation == ActivationNew(defs.activation)
         IN IF activation = NoActivation
            THEN [status |-> "panic: Unknown activation function", at |-> keyOrd[i], nn |-> nn]
            ELSE CreateNeurons(CreateNeuron(nn, keyOrd[i], activation, defs.bias),
                               cfg, keyOrd, i + 1)

\* NeuralNetwork::connect_neurons: [status, nn]
ConnectNeurons(nn, lneuron_id, rneuron_id, weight) ==
    IF lneuron_id \notin DOMAIN nn.neuron_map \/ rneuron_id \notin DOMAIN nn.neuron_map
    THEN [status |-> "panic: Could not find neuron", at |-> lneuron_id, nn |-> nn]
    ELSE LET l == nn.neuron_map[lneuron_id]
             r == nn.neuron_map[rneuron_id]
         IN IF IsInput(nn.neurons[r])
            THEN [status |-> "panic: Cannot use input neuron as output", at |-> rneuron_id, nn |-> nn]
            ELSE [status |-> "Ok", at |-> "",
                  nn |-> [nn EXCEPT !.neurons[r] = Connect(@, l, weight).neuron]]

\* the second loop of new: for the i-th key of cfg.neurons (order keyOrd),
\* its synapses from the j-th on (order synOrd[key])
RECURSIVE ConnectAll(_, _, _, _, _, _)
ConnectAll(nn, cfg, keyOrd, synOrd, i, j) ==
    IF i > Len(keyOrd) THEN [status |-> "Ok", at |-> "", nn |-> nn]
    ELSE LET rname == keyOrd[i] IN
         IF j > Len(synOrd[rname]) THEN ConnectAll(nn, cfg, keyOrd, synOrd, i + 1, 1)
         ELSE LET lname == synOrd[rname][j]
                  r == ConnectNeurons(nn, lname, rname, cfg.neurons[rname].synapses[lname])
              IN IF r.status # "Ok" THEN r
                 ELSE ConnectAll(r.nn, cfg, keyOrd, synOrd, i, j + 1)

\* NeuralNetwork::calculate_depths, neuron_map iterated in the order mapOrd.
\* The Result of calculate_depth is dropped; the depth is looked at instead.
RECURSIVE CalculateDepths(_, _, _)
CalculateDepths_NoCheck(nn, mapOrd, i) ==
    IF i > Len(mapOrd) THEN [status |-> "Ok", at |-> "", nn |-> nn]
    ELSE LET h == nn.neuron_map[mapOrd[i]]
             r == CalculateDepth(nn.neurons, h, {h})
         IN CalculateDepths([nn EXCEPT !.neurons = r.neurons], mapOrd, i + 1)

CalculateDepths(nn, mapOrd, i) ==
    IF i > Len(mapOrd) THEN [status |-> "Ok", at |-> "", nn |-> nn]
    ELSE LET h == nn.neuron_map[mapOrd[i]]
             r == CalculateDepth(nn.neurons, h, {h})
             nn1 == [nn EXCEPT !.neurons = r.neurons]
         IN IF r.neurons[h].depth = U32_MAX
            THEN [status |-> "panic: Could not calculate depth", at |-> mapOrd[i], nn |-> nn1]
            ELSE CalculateDepths(nn1, mapOrd, i + 1)

\* slice::sort_by is a stable sort: x goes behind every element that is not
\* greater than it
RECURSIVE InsertByDepth(_, _, _)
InsertByDepth(neurons, sorted, x) ==
    IF sorted = <<>> THEN <<x>>
    ELSE IF neurons[sorted[Len(sorted)]].depth <= neurons[x].depth
    THEN Append(sorted, x)
    ELSE Append(InsertByDepth(neurons, SubSeq(sorted, 1, Len(sorted) - 1), x),
                sorted[Len(sorted)])

RECURSIVE SortByDepth(_, _, _)
SortByDepth(neurons, list, sorted) ==
    IF list = <<>> THEN sorted
    ELSE SortByDepth(neurons, Tail(list), InsertByDepth(neurons, sorted, list[1]))

CreateSortedNeuronList(nn, mapOrd) ==
    [nn EXCEPT !.sorted_neurons =
        SortByDepth(nn.neurons, [i \in 1..Len(mapOrd) |-> nn.neuron_map[mapOrd[i]]], <<>>)]

\* NeuralNetwork::new on a parsed description: [status, at, nn], at being the
\* id a panic names and nn the network (at a panic: as far as it got).  keyOrd is the
\* iteration order of cfg.neurons, synOrd[k] that of cfg.neurons[k].synapses
\* and mapOrd that of nn.neuron_map.
NNNew(cfg, keyOrd, synOrd, mapOrd) ==
    LET nn1 == CreateOutputs(CreateInputs(EmptyNetwork, cfg.inputs, 1), cfg.outputs, 1)
        r2 == CreateNeurons(nn1, cfg, keyOrd, 1)
        r3 == ConnectAll(r2.nn, cfg, keyOrd, synOrd, 1, 1)
        r4 == CalculateDepths(r3.nn, mapOrd, 1)
    IN IF r2.status # "Ok" THEN r2
       ELSE IF r3.status # "Ok" THEN r3
       ELSE IF r4.status # "Ok" THEN r4
       ELSE [status |-> "Ok", at |-> "", nn |-> CreateSortedNeuronList(r4.nn, mapOrd)]

\* the ids neuron_map holds after the create_* steps of new
MapKeys(cfg) == Range(cfg.inputs) \cup Range(cfg.outputs) \cup DOMAIN cfg.neurons

\* NeuralNetwork::propagate: [ok, nn]
RECURSIVE SetInputs(_, _, _, _)
SetInputs(neurons, inputs, input_values, i) ==
    IF i > Len(inputs) \/ i > Len(input_values) THEN neurons
    ELSE SetInputs([neurons EXCEPT ![inputs[i]].last_activation_value = input_values[i]],
                   inputs, input_values, i + 1)

\* the second loop of propagate from position i on: [neurons, log], log
\* being what the calls of Neuron::propagate read, in the order they read it
RECURSIVE PropagateSorted(_, _, _)
PropagateSorted_Reversed(neurons, sorted, i) ==
    IF i > Len(sorted) THEN [neurons |-> neurons, log |-> <<>>]
    ELSE LET h == sorted[Len(sorted) + 1 - i]
             rest == PropagateSorted(
                       IF IsInput(neurons[h]) THEN neurons ELSE NeuronPropagate(neurons, h),
                       sorted, i + 1)
         IN [neurons |-> rest.neurons,
             log |-> (IF IsInput(neurons[h]) THEN <<>> ELSE ForwardReads(neurons, h))
                        \o rest.log]

PropagateSorted(neurons, sorted, i) ==
    IF i > Len(sorted) THEN [neurons |-> neurons, log |-> <<>>]
    ELSE LET h == sorted[i]
             rest == PropagateSorted(
                       IF IsInput(neurons[h]) THEN neurons ELSE NeuronPropagate(neurons, h),
                       sorted, i + 1)
         IN [neurons |-> rest.neurons,
             log |-> (IF IsInput(neurons[h]) THEN <<>> ELSE ForwardReads(neurons, h))
                        \o rest.log]

NNPropagate_NoCheck(nn, input_values) ==
    LET r == PropagateSorted(SetInputs(nn.neurons, nn.inputs, input_values, 1),
                             nn.sorted_neurons, 1)
    IN [ok |-> TRUE, nn |-> [nn EXCEPT !.neurons = r.neurons], log |-> r.log]

NNPropagate(nn, input_values) ==
    IF Len(input_values) # Len(nn.inputs)
    THEN [ok |-> FALSE, nn |-> nn, log |-> <<>>]
    ELSE LET r == PropagateSorted(SetInputs(nn.neurons, nn.inputs, input_values, 1),
                                  nn.sorted_neurons, 1)
         IN [ok |-> TRUE, nn |-> [nn EXCEPT !.neurons = r.neurons], log |-> r.log]

OutputValues(nn) ==
    [i \in 1..Len(nn.outputs) |-> nn.neurons[nn.outputs[i]].last_activation_value]

\* ErrorFunction::get_derivative (LossSquared)
GetDerivative(out, expected) == out - expected

\* error_map.get(id) with the None arm of the callers: absent counts as 0
ErrorOf(error_map, id) == IF id \in DOMAIN error_map THEN error_map[id] ELSE 0

\* Neuron::backpropagate on neuron h, mutably borrowed by the caller:
\* [neurons, error_map]
\* the key of error_map that the i-th synapse of h credits: try_borrow_mut
\* fails on self, the Err arm credits self_id
CreditedId(neurons, h, i) ==
    IF neurons[h].synapses[i].src = h THEN neurons[h].id
    ELSE neurons[neurons[h].synapses[i].src].id

RECURSIVE CreditSources(_, _, _, _, _)
CreditSources(neurons, h, accumulated_error, error_map, i) ==
    IF i > Len(neurons[h].synapses) THEN error_map
    ELSE LET syn == neurons[h].synapses[i]
             neuron_id == CreditedId(neurons, h, i)
             laccumulated == ErrorOf(error_map, neuron_id) + accumulated_error * syn.weight
         IN CreditSources(neurons, h, accumulated_error,
                          MapInsert(error_map, neuron_id, laccumulated), i + 1)

\* [neurons, error_map, log]; log has one entry for the read of the
\* accumulated error and then one per synapse: the id whose error is
\* credited and the activation value that goes into the weight update
NeuronBackpropagate_Current(neurons, h, error_map, learning_rate) ==
    LET n == neurons[h]
        map0 == IF n.id \in DOMAIN error_map THEN error_map ELSE MapInsert(error_map, n.id, 0)
        accumulated_error == map0[n.id]
        error == accumulated_error * Derivative(n.activation, n.last_activation_value)
        activation_value(i) ==
            LET src == n.synapses[i].src IN
            IF src = h THEN n.backup_activation_value
            ELSE neurons[src].last_activation_value
        update(i) == accumulated_error * learning_rate * activation_value(i)
    IN [neurons |->
          [neurons EXCEPT
             ![h].synapses = [i \in 1..Len(n.synapses) |->
                                [n.synapses[i] EXCEPT !.weight = @ - update(i)]],
             ![h].bias = @ - error * learning_rate],
        error_map |-> CreditSources(neurons, h, accumulated_error, map0, 1),
        log |-> <<[ev |-> "read", by |-> h, src |-> h, id |-> n.id,
                   value |-> accumulated_error]>>
                  \o [i \in 1..Len(n.synapses) |->
                        [ev |-> "credit", by |-> h, src |-> n.synapses[i].src,
                         id |-> CreditedId(neurons, h, i), value |-> activation_value(i)]]]

\* Neuron::backpropagate on neuron h, mutably borrowed by the caller
NeuronBackpropagate(neurons, h, error_map, learning_rate) ==
    LET n == neurons[h]
        map0 == IF n.id \in DOMAIN error_map THEN error_map ELSE MapInsert(error_map, n.id, 0)
        accumulated_error == map0[n.id]
        error == accumulated_error * Derivative(n.activation, n.last_activation_value)
        activation_value(i) ==
            LET src == n.synapses[i].src IN
            IF src = h THEN n.backup_activation_value
            ELSE IF neurons[src].depth <= n.depth
            THEN neurons[src].last_activation_value
            ELSE neurons[src].backup_activation_value
        update(i) == accumulated_error * learning_rate * activation_value(i)
    IN [neurons |->
          [neurons EXCEPT
             ![h].synapses = [i \in 1..Len(n.synapses) |->
                                [n.synapses[i] EXCEPT !.weight = @ - update(i)]],
             ![h].bias = @ - error * learning_rate],
        error_map |-> CreditSources(neurons, h, accumulated_error, map0, 1),
        log |-> <<[ev |-> "read", by |-> h, src |-> h, id |-> n.id,
                   value |-> accumulated_error]>>
                  \o [i \in 1..Len(n.synapses) |->
                        [ev |-> "credit", by |-> h, src |-> n.synapses[i].src,
                         id |-> CreditedId(neurons, h, i), value |-> activation_value(i)]]]

RECURSIVE SeedErrors(_, _, _, _)
SeedErrors(nn, expected_output_values, error_map, i) ==
    IF i > Len(nn.outputs) THEN error_map
    ELSE LET n == nn.neurons[nn.outputs[i]] IN
         SeedErrors(nn, expected_output_values,
                    MapInsert(error_map, n.id,
                              GetDerivative(n.last_activation_value, expected_output_values[i])),
                    i + 1)

\* sorted_neurons.iter().rev() from position i down: [neurons, log]
RECURSIVE BackpropagateSorted(_, _, _, _, _)
BackpropagateSorted_Ascending(neurons, sorted, error_map, learning_rate, i) ==
    IF i < 1 THEN [neurons |-> neurons, log |-> <<>>]
    ELSE LET r == NeuronBackpropagate(neurons, sorted[Len(sorted) + 1 - i], error_map,
                                      learning_rate)
             rest == BackpropagateSorted(r.neurons, sorted, r.error_map, learning_rate, i - 1)
         IN [neurons |-> rest.neurons, log |-> r.log \o rest.log]

BackpropagateSorted(neurons, sorted, error_map, learning_rate, i) ==
    IF i < 1 THEN [neurons |-> neurons, log |-> <<>>]
    ELSE LET r == NeuronBackpropagate(neurons, sorted[i], error_map, learning_rate)
             rest == BackpropagateSorted(r.neurons, sorted, r.error_map, learning_rate, i - 1)
         IN [neurons |-> rest.neurons, log |-> r.log \o rest.log]

\* NeuralNetwork::backpropagate: [ok, nn, log]
NNBackpropagate(nn, expected_output_values, learning_rate) ==
    IF Len(expected_output_values) # Len(nn.outputs)
    THEN [ok |-> FALSE, nn |-> nn, log |-> <<>>]
    ELSE LET r == BackpropagateSorted(nn.neurons, nn.sorted_neurons,
                                      SeedErrors(nn, expected_output_values, EmptyMap, 1),
                                      learning_rate, Len(nn.sorted_neurons))
         IN [ok |-> TRUE, nn |-> [nn EXCEPT !.neurons = r.neurons], log |-> r.log]

\* NeuralNetwork::print_as_json: the description that is serialized
PrintAsJson(nn) ==
    LET noninput == {i \in 1..Len(nn.sorted_neurons) : ~IsInput(nn.neurons[nn.sorted_neurons[i]])}
        idAt(i) == nn.neurons[nn.sorted_neurons[i]].id
        \* HashMap::insert: a later neuron with the same id replaces an earlier
        lastOf(id) == nn.sorted_neurons[Max({i \in noninput : idAt(i) = id})]
    IN [inputs |-> [i \in 1..Len(nn.inputs) |-> nn.neurons[nn.inputs[i]].id],
        outputs |-> [i \in 1..Len(nn.outputs) |-> nn.neurons[nn.outputs[i]].id],
        neurons |-> [id \in {idAt(i) : i \in noninput} |->
                       [activation |-> GetName(nn.neurons[lastOf(id)].activation),
                        bias |-> nn.neurons[lastOf(id)].bias,
                        synapses |-> GetSynapsesMap(nn.neurons, lastOf(id), {})]]]

\* -------------------------------------------------- topology descriptions
\* the activation names, biases and weights a description is filled with:
\* per id the name and the bias, per source id the weight of its synapses
Profile1 ==
    [activation |-> ("a" :> "Linear") @@ ("b" :> "ReLU") @@ ("c" :> "Linear"),
     bias |-> [id \in Ids |-> 0],
     weight |-> [id \in Ids |-> 1]]

Profile2 ==
    [activation |-> ("a" :> "relu") @@ ("b" :> "ReLU") @@ ("c" :> "linear"),
     bias |-> ("a" :> 0) @@ ("b" :> 0) @@ ("c" :> 1),
     weight |-> ("a" :> 1) @@ ("b" :> 2) @@ ("c" :> -1)]

Profile3 ==
    [activation |-> ("a" :> "step") @@ ("b" :> "BINARY") @@ ("c" :> "Identity"),
     bias |-> ("a" :> 1) @@ ("b" :> -1) @@ ("c" :> 0),
     weight |-> ("a" :> -1) @@ ("b" :> 1) @@ ("c" :> 1)]

\* E is a set of <<source id, target id>>, keys the further ids of "neurons"
Topology(inputs, outputs, E, keys, p) ==
    [inputs |-> inputs, outputs |-> outputs,
     neurons |-> [t \in keys \cup {e[2] : e \in E} |->
                    [activation |-> p.activation[t], bias |-> p.bias[t],
                     synapses |-> [s \in {e[1] : e \in {d \in E : d[2] = t}} |-> p.weight[s]]]]]

\* the <<source, target>> pairs a description draws its synapses from
SynapsePairs == (Ids \X Ids) \ {<<"a", "a">>, <<"c", "a">>}

SynapseSets == {E \in SUBSET SynapsePairs : Cardinality(E) <= MaxSynapses}

SeqsUpTo(S, n) == UNION {[1..k -> S] : k \in 0..n}

NoFile == [inputs |-> <<"-">>]

\* ------------------------------------------------------------------- state
VARIABLES
    command,          \* the subcommand: "Propagate", "Learn"; "Api", "RoundTrip"
                      \* and "Unit" drive NeuralNetwork and Neuron directly
    cfg,              \* the description in the file config_json_path
    pc,               \* where main is
    nn,               \* the NeuralNetwork
    fresh,            \* ghost: nn as new returned it
    rebuilt,          \* the network built from the snapshot of nn
    probe,            \* a neuron on its own
    propagate,        \* the flag of the Learn loop
    caught_sigterm,
    lines_read,       \* ghost: number of lines taken from stdin
    last,             \* ghost: the last call and its outcome
    reports,          \* number of messages written to stderr by the loops
    saved,            \* the description in the file save_config_json_path
    eof               \* ghost: stdin was found at its end

vars == <<command, cfg, pc, nn, fresh, rebuilt, probe, propagate,
          caught_sigterm, lines_read, last, reports, saved, eof>>

NoCall == [op |-> "none", arg |-> <<>>, status |-> "Ok", at |-> "", line |-> 0]

\* the iteration orders of the synapses maps of the keys of c.neurons
RECURSIVE SynOrdersOf(_, _)
SynOrdersOf(c, keys) ==
    IF keys = {} THEN {EmptyMap}
    ELSE LET k == CHOOSE x \in keys : TRUE IN
         {(k :> o) @@ f : o \in Orders(DOMAIN c.neurons[k].synapses),
                          f \in SynOrdersOf(c, keys \ {k})}

SynOrders(c) == SynOrdersOf(c, DOMAIN c.neurons)

\* ---------------------------------------------------------------- actions
\* NeuralNetwork::new(config_json_path)
Build ==
    /\ pc = "start"
    /\ command \in {"Propagate", "Learn", "Api", "RoundTrip"}
    /\ \/ \E keyOrd \in Orders(DOMAIN cfg.neurons), synOrd \in SynOrders(cfg),
             mapOrd \in Orders(MapKeys(cfg)) :
            LET r == NNNew(cfg, keyOrd, synOrd, mapOrd) IN
            \* a panic ends the process: there is no network then
            /\ nn' = IF r.status = "Ok" THEN r.nn ELSE EmptyNetwork
            /\ fresh' = nn'
            /\ pc' = IF r.status = "Ok" THEN "loop" ELSE "panicked"
            /\ last' = [op |-> "new", arg |-> <<>>, status |-> r.status, at |-> r.at, line |-> 0]
       \* File::open or serde_json::from_reader failed
       \/ /\ pc' = "exited_err"
          /\ last' = [op |-> "new", arg |-> <<>>, status |-> "Err", at |-> "", line |-> 0]
          /\ UNCHANGED <<nn, fresh>>
    /\ UNCHANGED <<command, cfg, rebuilt, probe, propagate, caught_sigterm,
                   lines_read, reports, saved, eof>>

\* Neuron::calculate_depth called once more on a neuron of the built network
RecalculateDepth ==
    /\ command = "Api" /\ pc = "loop"
    /\ \E h \in DOMAIN nn.neurons :
         LET r == CalculateDepth(nn.neurons, h, {h}) IN
         /\ nn' = [nn EXCEPT !.neurons = r.neurons]
         /\ last' = [op |-> "calculate_depth", arg |-> h,
                     status |-> IF r.ok THEN "Ok" ELSE "Err", at |-> "", line |-> 0]
    /\ UNCHANGED <<command, cfg, pc, fresh, rebuilt, probe, propagate,
                   caught_sigterm, lines_read, reports, saved, eof>>

NoNetwork == [status |-> "none", at |-> "", nn |-> EmptyNetwork]

\* print_as_json of the network, which takes the network by value, and new
\* on the description it gives
Rebuild ==
    /\ command = "RoundTrip" /\ pc = "loop"
    /\ LET c == PrintAsJson(nn) IN
       \E keyOrd \in Orders(DOMAIN c.neurons), synOrd \in SynOrders(c),
          mapOrd \in Orders(MapKeys(c)) :
         /\ rebuilt' = NNNew(c, keyOrd, synOrd, mapOrd)
         /\ last' = [op |-> "rebuild", arg |-> <<>>, status |-> rebuilt'.status, at |-> "", line |-> 0]
    /\ nn' = EmptyNetwork
    /\ pc' = "snapshotted"
    /\ UNCHANGED <<command, cfg, fresh, probe, propagate,
                   caught_sigterm, lines_read, reports, saved, eof>>

\* Neuron::connect on a neuron on its own
ProbeConnect ==
    /\ command = "Unit"
    /\ Len(probe.synapses) < MaxSynapses
    /\ \E src \in {<<"N", 1>>}, weight \in {-1, 2} :
         LET r == Connect(probe, src, weight) IN
         /\ probe' = r.neuron
         /\ last' = [op |-> "connect", arg |-> <<src, weight>>,
                     status |-> IF r.ok THEN "Ok" ELSE "Err", at |-> "", line |-> 0]
    /\ UNCHANGED <<command, cfg, pc, nn, fresh, rebuilt, propagate,
                   caught_sigterm, lines_read, reports, saved, eof>>

EmptyTopology == [inputs |-> <<>>, outputs |-> <<>>, neurons |-> EmptyMap]

InitRest ==
    /\ pc = "start"
    /\ nn = EmptyNetwork
    /\ fresh = EmptyNetwork
    /\ rebuilt = NoNetwork
    /\ propagate = TRUE
    /\ caught_sigterm = FALSE
    /\ lines_read = 0
    /\ last = NoCall
    /\ reports = 0
    /\ saved = NoFile
    /\ eof = FALSE

ApiTopologies ==
    {Topology(i, o, E, k, Profile2) :
        i \in {<<>>, <<"a">>},
        o \in {<<"a">>, <<"c">>},
        E \in SynapseSets, k \in {{}, {"b"}}}

InitApi ==
    /\ \/ /\ command \in {"Api", "RoundTrip"}
          /\ cfg \in ApiTopologies
          /\ probe = NeuronNew("p", "Normal", "Self::Linear", 0)
       \/ /\ command = "Unit"
          /\ cfg = EmptyTopology
          /\ probe \in {NeuronNew("p", t, "Self::Linear", 0) : t \in {"Input", "Normal"}}
    /\ InitRest

NextApi == Build \/ RecalculateDepth \/ Rebuild \/ ProbeConnect

SpecApi == InitApi /\ [][NextApi]_vars

\* ----------------------------------------------------------- the sessions
\* --learning-rate, at its default
LearningRate == 1

Values == {-3, 5}

InputVectors == SeqsUpTo(Values, MaxVec)

\* a line of stdin: the numbers it parses to, or a line parse::<f64> rejects
Lines == {[parses |-> TRUE, values |-> v] : v \in InputVectors}
            \cup {[parses |-> FALSE, values |-> <<>>]}

\* one turn of the loop of Commands::Propagate on a line of stdin
PropagateLine_Abort ==
    /\ command = "Propagate" /\ pc = "loop"
    /\ lines_read < MaxLines
    /\ lines_read' = lines_read + 1
    /\ \E line \in Lines :
         IF ~line.parses
         THEN /\ pc' = "exited_err"
              /\ last' = [op |-> "parse", arg |-> <<>>, status |-> "Err", at |-> "", line |-> lines_read']
              /\ UNCHANGED <<nn, reports>>
         ELSE LET r == NNPropagate(nn, line.values) IN
              /\ nn' = r.nn
              /\ reports' = IF r.ok THEN reports ELSE reports + 1
              /\ last' = [op |-> "propagate", arg |-> line.values, log |-> r.log,
                          status |-> IF r.ok THEN "Ok" ELSE "Err", at |-> "",
                          line |-> lines_read']
              /\ pc' = IF r.ok THEN "loop" ELSE "exited_err"
    /\ UNCHANGED <<command, cfg, fresh, rebuilt, probe, propagate, caught_sigterm, saved, eof>>

PropagateLine ==
    /\ command = "Propagate" /\ pc = "loop"
    /\ lines_read < MaxLines
    /\ lines_read' = lines_read + 1
    /\ \E line \in Lines :
         IF ~line.parses
         THEN /\ pc' = "exited_err"
              /\ last' = [op |-> "parse", arg |-> <<>>, status |-> "Err", at |-> "", line |-> lines_read']
              /\ UNCHANGED <<nn, reports>>
         ELSE LET r == NNPropagate(nn, line.values) IN
              /\ nn' = r.nn
              /\ reports' = IF r.ok THEN reports ELSE reports + 1
              /\ last' = [op |-> "propagate", arg |-> line.values, log |-> r.log,
                          status |-> IF r.ok THEN "Ok" ELSE "Err", at |-> "",
                          line |-> lines_read']
              /\ pc' = "loop"
    /\ UNCHANGED <<command, cfg, fresh, rebuilt, probe, propagate, caught_sigterm, saved, eof>>

\* stdin of Commands::Propagate is at its end
PropagateEof ==
    /\ command = "Propagate" /\ pc = "loop"
    /\ pc' = "exited_ok"
    /\ eof' = TRUE
    /\ UNCHANGED <<command, cfg, nn, fresh, rebuilt, probe, propagate, caught_sigterm,
                   lines_read, last, reports, saved>>

\* one turn of the loop of Commands::Learn on a line of stdin
LearnLine_Realign ==
    /\ command = "Learn" /\ pc = "loop"
    /\ lines_read < MaxLines
    /\ lines_read' = lines_read + 1
    /\ \E line \in Lines :
         IF caught_sigterm
         THEN /\ pc' = "save"
              /\ UNCHANGED <<nn, propagate, reports, last>>
         ELSE IF ~line.parses
         THEN /\ pc' = "panicked"
              /\ last' = [op |-> "parse", arg |-> <<>>, status |-> "panic: unwrap", at |-> "", line |-> lines_read']
              /\ UNCHANGED <<nn, propagate, reports>>
         ELSE IF propagate
         THEN LET r == NNPropagate(nn, line.values) IN
              /\ nn' = r.nn
              /\ propagate' = ~r.ok
              /\ reports' = IF r.ok THEN reports ELSE reports + 1
              /\ last' = [op |-> "propagate", arg |-> line.values, log |-> r.log,
                          status |-> IF r.ok THEN "Ok" ELSE "Err", at |-> "",
                          line |-> lines_read']
              /\ pc' = "loop"
         ELSE LET r == NNBackpropagate(nn, line.values, LearningRate) IN
              /\ nn' = r.nn
              /\ propagate' = TRUE
              /\ reports' = IF r.ok THEN reports ELSE reports + 1
              /\ last' = [op |-> "backpropagate", arg |-> line.values, log |-> r.log,
                          status |-> IF r.ok THEN "Ok" ELSE "Err", at |-> "",
                          line |-> lines_read']
              /\ pc' = "loop"
    /\ UNCHANGED <<command, cfg, fresh, rebuilt, probe, caught_sigterm, saved, eof>>

LearnLine ==
    /\ command = "Learn" /\ pc = "loop"
    /\ lines_read < MaxLines
    /\ lines_read' = lines_read + 1
    /\ \E line \in Lines :
         IF caught_sigterm
         THEN /\ pc' = "save"
              /\ UNCHANGED <<nn, propagate, reports, last>>
         ELSE IF ~line.parses
         THEN /\ pc' = "panicked"
              /\ last' = [op |-> "parse", arg |-> <<>>, status |-> "panic: unwrap", at |-> "", line |-> lines_read']
              /\ UNCHANGED <<nn, propagate, reports>>
         ELSE IF propagate
         THEN LET r == NNPropagate(nn, line.values) IN
              /\ nn' = r.nn
              /\ propagate' = ~r.ok
              /\ reports' = IF r.ok THEN reports ELSE reports + 1
              /\ last' = [op |-> "propagate", arg |-> line.values, log |-> r.log,
                          status |-> IF r.ok THEN "Ok" ELSE "Err", at |-> "",
                          line |-> lines_read']
              /\ pc' = "loop"
         ELSE LET r == NNBackpropagate(nn, line.values, LearningRate) IN
              /\ nn' = r.nn
              /\ propagate' = r.ok
              /\ reports' = IF r.ok THEN reports ELSE reports + 1
              /\ last' = [op |-> "backpropagate", arg |-> line.values, log |-> r.log,
                          status |-> IF r.ok THEN "Ok" ELSE "Err", at |-> "",
                          line |-> lines_read']
              /\ pc' = "loop"
    /\ UNCHANGED <<command, cfg, fresh, rebuilt, probe, caught_sigterm, saved, eof>>

\* stdin of Commands::Learn is at its end
LearnEof ==
    /\ command = "Learn" /\ pc = "loop"
    /\ pc' = "save"
    /\ eof' = TRUE
    /\ UNCHANGED <<command, cfg, nn, fresh, rebuilt, probe, propagate, caught_sigterm,
                   lines_read, last, reports, saved>>

\* the two statements behind the loop of Commands::Learn
Save_Skip ==
    /\ pc = "save"
    /\ pc' = "exited_ok"
    /\ last' = [op |-> "write", arg |-> <<>>, status |-> "Ok", at |-> "", line |-> 0]
    /\ UNCHANGED <<command, cfg, nn, fresh, rebuilt, probe, propagate, caught_sigterm,
                   lines_read, reports, eof, saved>>

Save ==
    /\ pc = "save"
    /\ \/ /\ saved' = PrintAsJson(nn)
          /\ pc' = "exited_ok"
          /\ last' = [op |-> "write", arg |-> <<>>, status |-> "Ok", at |-> "", line |-> 0]
       \* fs::write failed
       \/ /\ pc' = "panicked"
          /\ last' = [op |-> "write", arg |-> <<>>,
                      status |-> "panic: Unable to write file", at |-> "", line |-> 0]
          /\ UNCHANGED saved
    /\ UNCHANGED <<command, cfg, nn, fresh, rebuilt, probe, propagate, caught_sigterm,
                   lines_read, reports, eof>>

\* the handler given to ctrlc::set_handler runs, on its own thread
Signal ==
    /\ command = "Learn" /\ pc \in {"loop", "save"}
    /\ IF caught_sigterm
       THEN /\ pc' = "exit1"
            /\ UNCHANGED caught_sigterm
       ELSE /\ caught_sigterm' = TRUE
            /\ UNCHANGED pc
    /\ UNCHANGED <<command, cfg, nn, fresh, rebuilt, probe, propagate, lines_read,
                   last, reports, saved, eof>>

\* the synapses of the chain a -> b -> c, and one onto the input a
ChainPairs == {<<"a", "b">>, <<"b", "c">>, <<"b", "a">>}

RunTopologies ==
    {Topology(<<"a">>, <<"c">>, E, {"b"}, Profile2) : E \in SynapseSets}
      \cup {Topology(<<"a">>, <<"c">>, E, {"b"}, p) :
               E \in SUBSET ChainPairs, p \in {Profile1, Profile3}}

Init ==
    /\ command \in {"Propagate", "Learn"}
    /\ cfg \in RunTopologies
    /\ probe = NeuronNew("p", "Normal", "Self::Linear", 0)
    /\ InitRest

Next == Build \/ PropagateLine \/ PropagateEof \/ LearnLine \/ LearnEof \/ Save \/ Signal

Spec == Init /\ [][Next]_vars

\* ------------------------------------------------- notions of the claims
\* the synapses a description declares, as <<source id, target id>>
CfgSynapses(c) ==
    {<<src, t>> : src \in Ids, t \in DOMAIN c.neurons} \cap
    {e \in Ids \X Ids : e[2] \in DOMAIN c.neurons /\ e[1] \in DOMAIN c.neurons[e[2]].synapses}

\* the ids reached from the ids in S along n or fewer synapses
RECURSIVE ReachedFrom(_, _, _)
ReachedFrom(c, S, n) ==
    IF n = 0 THEN S
    ELSE ReachedFrom(c, S \cup {e[2] : e \in {d \in CfgSynapses(c) : d[1] \in S}}, n - 1)

Acyclic(c) ==
    \A e \in CfgSynapses(c) : e[1] \notin ReachedFrom(c, {e[2]}, Cardinality(Ids))

HasSynapses(c, id) == id \in DOMAIN c.neurons /\ DOMAIN c.neurons[id].synapses # {}

\* id has a path of synapses from an id without incoming synapses
Anchored(c, id) ==
    \E r \in MapKeys(c) : ~HasSynapses(c, r) /\ id \in ReachedFrom(c, {r}, Cardinality(Ids))

MapNeurons(g) == {g.neuron_map[id] : id \in DOMAIN g.neuron_map}

SourceDepths(g, h) ==
    {g.neurons[g.neurons[h].synapses[i].src].depth : i \in 1..Len(g.neurons[h].synapses)}

Depths(g) == [h \in DOMAIN g.neurons |-> g.neurons[h].depth]

\* new read a description and got as far as calculate_depths
ReachedDepths ==
    last.op = "new" /\ last.status \in {"Ok", "panic: Could not calculate depth"}

UndefinedOutputs(c) ==
    {id \in Range(c.outputs) : id \notin DOMAIN c.neurons /\ id \notin Range(c.inputs)}

\* C5: build fails with the unknown-neuron panic whenever an id of outputs
\* is neither a key of neurons nor an id of inputs
C5_UndefinedOutputFails ==
    (last.op = "new" /\ last.status # "Err" /\ UndefinedOutputs(cfg) # {})
       => (pc = "panicked" /\ last.status = "panic: Could not find neuron")

\* C6: a build that gets as far as calculate_depths panics there exactly
\* when some neuron with synapses has no path from a neuron without
\* synapses, the panic names such a neuron, and a build that succeeds has
\* given every neuron of neuron_map a depth; in whatever order neuron_map
\* and the synapses maps are iterated.
C6_DepthUnresolvedIffUnanchored ==
    ReachedDepths =>
       LET unanchored == {id \in MapKeys(cfg) : HasSynapses(cfg, id) /\ ~Anchored(cfg, id)} IN
       /\ (last.status = "panic: Could not calculate depth") <=> (unanchored # {})
       /\ last.status = "panic: Could not calculate depth" => last.at \in unanchored
       /\ last.status = "Ok" =>
             \A h \in MapNeurons(nn) : nn.neurons[h].depth # U32_MAX

\* a neuron on a cycle that has an anchoring path got a depth
C6_Witness ==
    /\ ReachedDepths /\ last.status = "Ok"
    /\ ~Acyclic(cfg)
    /\ \E id \in DOMAIN cfg.neurons : id \in DOMAIN cfg.neurons[id].synapses

\* a neuron whose only synapse is a self-loop stops the build
C6_WitnessPanic ==
    /\ last.status = "panic: Could not calculate depth"
    /\ DOMAIN cfg.neurons[last.at].synapses = {last.at}

\* C7: an input neuron never has an incoming synapse: connect on an Input
\* neuron is an error and leaves its synapses empty, build panics on every
\* synapse whose target is an input id, and after build every Input neuron
\* has no synapses
C7_InputsHaveNoSynapses ==
    /\ (command = "Unit" /\ IsInput(probe))
          => (probe.synapses = <<>> /\ (last.op = "connect" => last.status = "Err"))
    /\ (last.op = "new" /\ last.status # "Err"
          /\ \E t \in Range(cfg.inputs) : HasSynapses(cfg, t))
          => pc = "panicked"
    /\ pc = "loop" =>
          \A h \in DOMAIN nn.neurons : IsInput(nn.neurons[h]) => nn.neurons[h].synapses = <<>>

\* C4: the network built from the snapshot of a built network builds, has
\* the same snapshot, and gives the same outputs for the same inputs
C4_RoundTrip ==
    rebuilt.status # "none" =>
       /\ rebuilt.status = "Ok"
       /\ PrintAsJson(rebuilt.nn) = PrintAsJson(fresh)
       /\ \A v \in InputVectors :
             OutputValues(NNPropagate(rebuilt.nn, v).nn) = OutputValues(NNPropagate(fresh, v).nn)

\* the biases and the weights of a network
Params(g) ==
    [h \in DOMAIN g.neurons |->
       [bias |-> g.neurons[h].bias,
        weights |-> [i \in 1..Len(g.neurons[h].synapses) |-> g.neurons[h].synapses[i].weight]]]

\* this step is a turn of a loop that made the call recorded in last'
CallStep == lines_read' = lines_read + 1 /\ last'.line = lines_read'

Ended == pc \in {"exited_ok", "exited_err", "exit1", "panicked"}

\* C1: propagate on a vector whose length is not the number of input
\* neurons returns an error and leaves the network as it was
C1_ShapeMismatchLeavesGraph ==
    [][(CallStep /\ last'.op = "propagate" /\ Len(last'.arg) # Len(nn.inputs))
          => (last'.status = "Err" /\ nn' = nn)]_vars

C1_Witness ==
    /\ last.op = "propagate" /\ last.status = "Err"
    /\ Len(last.arg) > Len(nn.inputs)
    /\ \E h \in DOMAIN nn.neurons :
          /\ nn.neurons[h].last_activation_value # 0
          /\ nn.neurons[h].backup_activation_value # 0

\* C3, as the spec has it: on a network whose weights and biases are those
\* it was built with, a successful propagate leaves the outputs that the
\* same input gives on the network as built, whatever was propagated before
C3_PropagateDeterministic ==
    (last.op = "propagate" /\ last.status = "Ok" /\ Params(nn) = Params(fresh))
       => OutputValues(nn) = OutputValues(NNPropagate(fresh, last.arg).nn)

\* C3, amended: the same for every acyclic topology
C3_PropagateDeterministicAcyclic ==
    (last.op = "propagate" /\ last.status = "Ok" /\ Params(nn) = Params(fresh)
        /\ Acyclic(cfg))
       => OutputValues(nn) = OutputValues(NNPropagate(fresh, last.arg).nn)

\* a second pass whose output differs from the one left by the pass before
C3_Witness ==
    /\ last.op = "propagate" /\ last.status = "Ok" /\ Params(nn) = Params(fresh)
    /\ Acyclic(cfg) /\ lines_read >= 2
    /\ \E i \in 1..Len(nn.outputs) :
          LET n == nn.neurons[nn.outputs[i]] IN
          /\ n.backup_activation_value # n.last_activation_value
          /\ n.backup_activation_value # fresh.neurons[nn.outputs[i]].last_activation_value
          /\ Len(n.synapses) > 0

\* C8: a line whose propagate or backpropagate call fails is reported and
\* the loop goes on
C8_FailedLineGoesOn ==
    [][(CallStep /\ last'.op \in {"propagate", "backpropagate"} /\ last'.status = "Err")
          => (pc' = "loop" /\ reports' = reports + 1)]_vars

C8_Witness ==
    /\ command = "Learn" /\ pc = "loop" /\ reports = 2
    /\ last.op = "propagate" /\ last.status = "Ok" /\ last.line = 3

C8_WitnessPropagateMode ==
    /\ command = "Propagate" /\ pc = "loop" /\ reports = 1
    /\ last.op = "propagate" /\ last.status = "Ok" /\ last.line = 2

\* C9, as the spec has it: a Learn session that has found the end of its
\* input or has caught a signal does not end without the file written
\* (a write that the file system refuses set aside)
C9_EndsSaved ==
    (command = "Learn" /\ Ended /\ (eof \/ caught_sigterm)
        /\ last.status # "panic: Unable to write file")
       => saved = PrintAsJson(nn)

\* C9, amended: such a session ends with the file written from the network
\* as it then is, or by the handler's exit at a second signal, or by the
\* panic of a write that failed
C9_EndsSavedUnlessForced ==
    command = "Learn" =>
       /\ pc = "exited_ok" => saved = PrintAsJson(nn)
       /\ (Ended /\ (eof \/ caught_sigterm)) =>
             \/ pc = "exited_ok"
             \/ pc = "exit1"
             \/ pc = "panicked" /\ last.status = "panic: Unable to write file"
       /\ pc = "save" => (eof \/ caught_sigterm)

C9_Witness ==
    /\ command = "Learn" /\ pc = "exited_ok" /\ caught_sigterm /\ ~eof
    /\ saved = PrintAsJson(nn)
    /\ Params(nn) # Params(fresh)

\* the activation value the neuron h has when its sources have theirs
Forward(g, h) ==
    LET n == g.neurons[h] IN
    Activation(n.activation,
               n.bias + SumSeq([i \in 1..Len(n.synapses) |->
                                   n.synapses[i].weight
                                     * g.neurons[n.synapses[i].src].last_activation_value]))

ExampleTopology ==
    Topology(<<"a">>, <<"c">>, {<<"a", "b">>, <<"b", "c">>}, {"b"}, Profile1)

\* C10: for an acyclic topology, after a successful propagate every neuron
\* that is not an Input has the activation value its activation function
\* gives for its bias plus the weighted values its sources have after the
\* pass; in -> hidden(ReLU) -> out(Linear) with weights 1 gives 0 for -3
\* and 5 for 5
C10_ForwardValues ==
    (last.op = "propagate" /\ last.status = "Ok" /\ Acyclic(cfg)) =>
       /\ \A h \in DOMAIN nn.neurons :
             ~IsInput(nn.neurons[h]) => nn.neurons[h].last_activation_value = Forward(nn, h)
       /\ (cfg = ExampleTopology /\ Params(nn) = Params(fresh)) =>
             /\ last.arg = <<-3>> => OutputValues(nn) = <<0>>
             /\ last.arg = <<5>> => OutputValues(nn) = <<5>>

\* the example gives 0 for -3 after it gave 5 for 5
C10_Witness ==
    /\ cfg = ExampleTopology /\ last.op = "propagate" /\ last.status = "Ok"
    /\ last.arg = <<-3>> /\ OutputValues(nn) = <<0>>
    /\ nn.neurons[nn.outputs[1]].backup_activation_value = 5

\* a synapse of a recurrent edge: its source is no shallower than its target
Recurrent(g, src, by) == g.neurons[src].depth >= g.neurons[by].depth

\* the entries of a backward log in which an error credited to the neuron
\* that entry p has read the error of arrives after that read
LateCredits(log) ==
    {q \in 1..Len(log) :
        /\ log[q].ev = "credit"
        /\ \E p \in 1..(q - 1) : log[p].ev = "read" /\ log[p].id = log[q].id}

\* C11, as the spec has it: in a successful backpropagate, for every
\* synapse, the error the target credits to the source is in the error map
\* before the source reads its accumulated error
C11_CreditBeforeRead ==
    (last.op = "backpropagate" /\ last.status = "Ok") => LateCredits(last.log) = {}

\* C11, amended: this holds of every synapse that is not a recurrent edge,
\* that is, whose source is shallower than its target
C11_ForwardCreditBeforeRead ==
    (last.op = "backpropagate" /\ last.status = "Ok")
       => \A q \in LateCredits(last.log) : Recurrent(nn, last.log[q].src, last.log[q].by)

\* a backpropagate on a cyclic topology in which a hidden neuron has read
\* an error other than 0 that a deeper neuron credited to it before
C11_Witness ==
    /\ last.op = "backpropagate" /\ last.status = "Ok" /\ ~Acyclic(cfg)
    /\ Params(nn) # Params(fresh)
    /\ \E p, q \in 1..Len(last.log) :
          /\ q < p
          /\ last.log[q].ev = "credit" /\ last.log[p].ev = "read"
          /\ last.log[q].id = last.log[p].id /\ last.log[p].value # 0
          /\ ~IsInput(nn.neurons[last.log[p].by])
          /\ ~Recurrent(nn, last.log[q].src, last.log[q].by)

\* C12: in a successful propagate, what the forward step of a target reads
\* over a self-loop, or over a synapse whose source is deeper than the
\* target, is the activation value the source had before the call
C12_RecurrentReadsPrevious ==
    [][(CallStep /\ last'.op = "propagate" /\ last'.status = "Ok")
          => \A k \in 1..Len(last'.log) :
                LET e == last'.log[k] IN
                (e.src = e.by \/ nn.neurons[e.src].depth > nn.neurons[e.by].depth)
                   => e.value = nn.neurons[e.src].last_activation_value]_vars

\* a propagate in which a target has read a value other than 0 from a deeper
\* source, and the source has a new value since
C12_Witness ==
    /\ last.op = "propagate" /\ last.status = "Ok"
    /\ \E k \in 1..Len(last.log) :
          LET e == last.log[k] IN
          /\ e.src # e.by
          /\ nn.neurons[e.src].depth > nn.neurons[e.by].depth
          /\ e.value # 0
          /\ e.value # nn.neurons[e.src].last_activation_value

\* a propagate in which a neuron has read its own value over a self-loop
\* and has a new value since
C12_WitnessSelfLoop ==
    /\ last.op = "propagate" /\ last.status = "Ok"
    /\ \E k \in 1..Len(last.log) :
          LET e == last.log[k] IN
          /\ e.src = e.by /\ e.value # 0
          /\ e.value # nn.neurons[e.src].last_activation_value

\* the value a forward log has for the synapse from src of the neuron by
ValueRead(log, by, src) ==
    LET k == CHOOSE k \in 1..Len(log) : log[k].by = by /\ log[k].src = src
    IN log[k].value

\* C13: when a successful backpropagate follows a successful propagate
\* directly, the activation value that goes into the weight update of each
\* synapse is the value propagate has read over that synapse
C13_UpdateUsesValueRead ==
    [][(CallStep /\ last.op = "propagate" /\ last.status = "Ok"
           /\ last'.op = "backpropagate" /\ last'.status = "Ok")
          => \A k \in 1..Len(last'.log) :
                LET e == last'.log[k] IN
                e.ev = "credit" => e.value = ValueRead(last.log, e.by, e.src)]_vars

\* a backpropagate after a propagate in which the weight update of a
\* synapse from a deeper source has used the backup value of the source,
\* which is not the value the source has now
C13_Witness ==
    /\ last.op = "backpropagate" /\ last.status = "Ok"
    /\ Params(nn) # Params(fresh)
    /\ \E k \in 1..Len(last.log) :
          LET e == last.log[k] IN
          /\ e.ev = "credit" /\ e.src # e.by
          /\ nn.neurons[e.src].depth > nn.neurons[e.by].depth
          /\ e.value = nn.neurons[e.src].backup_activation_value
          /\ e.value # nn.neurons[e.src].last_activation_value

\* the place of a neuron in the order the description declares the neurons
\* in: the inputs as listed, the outputs as listed, then the further ids
InsertionRank(g, h) ==
    IF h[1] = "I" THEN h[2]
    ELSE IF h[1] = "O" THEN Len(g.inputs) + h[2]
    ELSE Len(g.inputs) + Len(g.outputs) + h[2]

\* a description whose outputs are all defined under "neurons" and are not
\* inputs as well
WellFormed(c) ==
    /\ Range(c.outputs) \subseteq DOMAIN c.neurons
    /\ Range(c.outputs) \cap Range(c.inputs) = {}

\* C14: after build (of a well-formed description), sorted_neurons has
\* every neuron of the network exactly once, in ascending depth, and neurons
\* of equal depth in the order the description declares them in
C14_SortedInInsertionOrder ==
    (last.op = "new" /\ last.status = "Ok" /\ WellFormed(cfg))
       => /\ Range(nn.sorted_neurons) = MapNeurons(nn)
          /\ Len(nn.sorted_neurons) = Cardinality(MapNeurons(nn))
          /\ \A i, j \in 1..Len(nn.sorted_neurons) :
                i < j =>
                  LET x == nn.neurons[nn.sorted_neurons[i]]
                      y == nn.neurons[nn.sorted_neurons[j]]
                  IN /\ x.depth <= y.depth
                     /\ x.depth = y.depth
                          => InsertionRank(nn, nn.sorted_neurons[i])
                               < InsertionRank(nn, nn.sorted_neurons[j])

\* the depth of every id of neuron_map
DepthOfId(g) == [id \in DOMAIN g.neuron_map |-> g.neurons[g.neuron_map[id]].depth]

\* one build of the description c, the maps iterated in some fixed order
ReferenceBuild(c) ==
    NNNew(c, CHOOSE o \in Orders(DOMAIN c.neurons) : TRUE,
             CHOOSE o \in SynOrders(c) : TRUE,
             CHOOSE o \in Orders(MapKeys(c)) : TRUE)

\* C15: the depths a build (of a well-formed description) assigns are those
\* that every other build of the same description assigns, whatever order
\* calculate_depths visits the neurons in
C15_DepthOrderIndependent ==
    (last.op = "new" /\ last.status = "Ok" /\ WellFormed(cfg))
       => /\ ReferenceBuild(cfg).status = "Ok"
          /\ DepthOfId(nn) = DepthOfId(ReferenceBuild(cfg).nn)

\* C16: in a learn session backpropagate is called only on the line after
\* a successful propagate or after a failed backpropagate, and propagate
\* only on the first line, after a failed propagate or after a successful
\* backpropagate
C16_LinesAlternate ==
    [][(command = "Learn" /\ CallStep)
          => /\ last'.op = "backpropagate"
                  => \/ last.op = "propagate" /\ last.status = "Ok"
                     \/ last.op = "backpropagate" /\ last.status = "Err"
             /\ last'.op = "propagate"
                  => \/ last.op = "new"
                     \/ last.op = "propagate" /\ last.status = "Err"
                     \/ last.op = "backpropagate" /\ last.status = "Ok"
             /\ (last.op = "propagate" /\ last.status = "Ok") => last'.op # "propagate"
             /\ (last.op = "backpropagate" /\ last.status = "Err") => last'.op # "propagate"]_vars

\* a session whose second line was taken as an expected-output line and
\* failed, and whose third line was taken as one again and trained
C16_Witness ==
    /\ command = "Learn" /\ pc = "loop" /\ reports = 1
    /\ last.op = "backpropagate" /\ last.status = "Ok" /\ last.line = 3
    /\ Params(nn) # Params(fresh)

\* a session whose first line failed as an input line and whose second line
\* was taken as an input line again
C16_WitnessInputAgain ==
    /\ command = "Learn" /\ pc = "loop" /\ reports = 1
    /\ last.op = "propagate" /\ last.status = "Ok" /\ last.line = 2

====
